---------------------------- MODULE Spec2Model ----------------------------
(***************************************************************************)
(* One-way directory mirror (binChris/go-mirror): the mirror engine of     *)
(* mirror/mirror.go, the policy cells of config/config.go and the console  *)
(* frontend, as a state machine.                                           *)
(*                                                                         *)
(* A directory pair is modelled by the path it has relative to the two     *)
(* roots: Run is seeded with (Source, Destination) and every sub pair is   *)
(* (Join(Source, n), Join(Destination, n)), so both halves of a pair share *)
(* the same relative path.  Times are integers in milliseconds.            *)
(***************************************************************************)
EXTENDS Integers, Sequences, FiniteSets, TLC

(***************************************************************************)
(* Bounds of the model.                                                    *)
(***************************************************************************)
MaxSrcEntries == 3      \* entries (files and directories) in the source tree
MaxDstEntries == 2      \* entries in the destination tree
MaxParallel == 2        \* largest value of the -parallel flag
MaxAskEntries == 3      \* entries of both trees together when run without -force
MaxRuns == 2            \* invocations of the program in succession (with -force)
MaxLiveEntries == 4     \* entries of both trees together in LiveSpec
MaxSize == 1            \* file sizes of the equality test: 0..MaxSize
MaxTicks == 4           \* modification times of the equality test: 0..MaxTicks half seconds
MaxCopiers == 1         \* copy goroutines calling Progress at once
MaxClock == 3           \* the clock runs for MaxClock half seconds

(***************************************************************************)
(* Program constants.                                                      *)
(***************************************************************************)
Second == 1000          \* time.Second, in milliseconds

Names == {"a", "b"}
Root == << >>
Paths == {<<n>> : n \in Names} \cup {<<n, k>> : n \in Names, k \in Names}
\* the -parallel flag is a signed int
ParallelValues == -1..MaxParallel

None == [kind |-> "none", size |-> 0, mtime |-> 0]
Dir == [kind |-> "dir", size |-> 0, mtime |-> 0]
File(s, t) == [kind |-> "file", size |-> s, mtime |-> t]

\* the files a source tree is built from, and those of a destination tree:
\* the same file, and one of the same size two seconds older
SrcFiles == {File(1, 2 * Second)}
DstFiles == {File(1, 2 * Second), File(1, 0)}

Join(p, n) == Append(p, n)
Parent(p) == SubSeq(p, 1, Len(p) - 1)
IsPrefix(p, q) == Len(p) <= Len(q) /\ SubSeq(q, 1, Len(p)) = p

\* the kind of the entry at path p of tree t; the two roots are directories
\* (FromCommandLine exits unless both are)
Kind(t, p) == IF p = Root THEN "dir" ELSE IF p \in Paths THEN t[p].kind ELSE "none"

WellFormed(t) == \A p \in Paths : t[p].kind # "none" => Kind(t, Parent(p)) = "dir"
Entries(t) == {p \in Paths : t[p].kind # "none"}

SrcTrees ==
    {t \in [Paths -> {None, Dir} \cup SrcFiles] :
        WellFormed(t) /\ Cardinality(Entries(t)) <= MaxSrcEntries}
DstTrees ==
    {t \in [Paths -> {None, Dir} \cup DstFiles] :
        WellFormed(t) /\ Cardinality(Entries(t)) <= MaxDstEntries}

\* Names are compared for equality only and the listings are maps, so
\* exchanging the two names below a directory changes nothing: when one
\* name only is in use below a directory, it is taken to be "a"
InUse(s, d, p) == p \in Paths /\ (s[p].kind # "none" \/ d[p].kind # "none")
Canonical(s, d) ==
    \A p \in {Root} \cup {<<n>> : n \in Names} :
        InUse(s, d, Join(p, "b")) => InUse(s, d, Join(p, "a"))

Axes == {"CreateDir", "DeleteDir", "CreateFile", "OverwriteFile", "DeleteFile"}

VARIABLES
    src,            \* the source tree: path -> entry
    dst,            \* the destination tree: path -> entry
    dst0,           \* the destination tree when the current run started
    force,          \* the -force flag of the command line
    run,            \* number of invocations so far
    status,         \* "idle", "running", "complete", "fatal", "quit"
    policy,         \* the five policy cells Config points to
    capacity,       \* cap(m.throttle)
    throttle,       \* len(m.throttle): slots held
    queue,          \* m.queue
    wg,             \* m.wg: tasks spawned and not done
    tasks,          \* the goroutines spawned by process and not finished
    pc,             \* where the driving goroutine of Run stands
    cur,            \* the pair process was called with
    snap,           \* the four listings of compareSourceWithDestination
    todo,           \* iterations of its four loops still to run
    out,            \* subs, delDirs, delFiles, cpFiles built so far
    gate,           \* the prompt allow is waiting at, or NoGate
    mLocked,        \* m.m is held
    key,            \* the last byte Choice read for the current prompt
    lastAllow,      \* what the last call of allow returned
    err,            \* the last filesystem error of the current run
    dirsCreated, dirsDeleted, filesCopied, filesDeleted, filesIdentical,
    fi1, fi2,       \* the two FileInfo of a call of filesAreDifferent
    different,      \* what that call returned: "different" or "identical",
                    \* "unset" before it
    visited,        \* the pairs m.get() has returned in the current run
    granted,        \* some call of allow of the current run found its cell
                    \* 'a' or had its prompt answered 'y' or 'a'
    now,            \* time.Now(), in milliseconds
    nextProgress,   \* Console.nextProgress
    waitForInput,   \* the goroutine holding Console.waitForInput, or NoCaller
    calls,          \* where each goroutine stands in its call of Progress or
                    \* of allow
    lastPrinted     \* when Progress last printed a line, Never before the first

engine == <<status, policy, capacity, throttle, queue, wg, tasks, pc, cur, snap,
            todo, out, gate, mLocked, key, lastAllow>>
counters == <<dirsCreated, dirsDeleted, filesCopied, filesDeleted, filesIdentical>>
stat == <<fi1, fi2, different>>
hist == <<visited, granted>>
console == <<now, nextProgress, waitForInput, calls, lastPrinted>>
vars == <<src, dst, dst0, force, run, err, engine, counters, stat, hist, console>>

NoGate == [axis |-> "", loop |-> 0, name |-> ""]
NoAllow == [axis |-> "", ok |-> FALSE]
NoSnap == [sDirs |-> {}, sFiles |-> {}, dDirs |-> {}, dFiles |-> {}]
NoOut == [subs |-> << >>, delDirs |-> {}, delFiles |-> {}, cpFiles |-> {}]
NoFile == File(0, 0)

\* the goroutines that call the console: the one that runs Run, and the copy
\* goroutines of process
Driver == <<"driver", 0>>
Copiers == {"copy"} \X (1..MaxCopiers)
Callers == {Driver} \cup Copiers
NoCaller == <<"nobody", 0>>
\* a goroutine outside Progress and allow
NoCall == [pc |-> "out", inWindow |-> FALSE, axis |-> ""]
\* the value of lastPrinted before the first line
Never == -1

(***************************************************************************)
(* The filesystem calls.                                                   *)
(***************************************************************************)
\* os.ReadDir succeeds on a directory only
readDirOk(t, p) == Kind(t, p) = "dir"
\* readDir: the children of p, split by e.IsDir()
readDirDirs(t, p) == {n \in Names : Kind(t, Join(p, n)) = "dir"}
readDirFiles(t, p) == {n \in Names : Kind(t, Join(p, n)) = "file"}

\* os.Mkdir fails when the path exists or its parent is no directory.  The
\* mode passed is inf.Type().Perm(), the permission bits of the type bits of
\* the source entry, which are 0: whether the process can list the new
\* directory afterwards depends on its privileges, one of the reasons the
\* listing in process can fail.
MkdirOk(t, p) == p \in Paths /\ Kind(t, p) = "none" /\ Kind(t, Parent(p)) = "dir"
Mkdir(t, p) == [t EXCEPT ![p] = Dir]

\* RemoveAll as it would be were only the named entry removed
RemoveAllShallow(t, p) == [t EXCEPT ![p] = None]

\* os.RemoveAll removes the path and everything below it; a missing path is
\* no error
RemoveAll(t, p) == [q \in Paths |-> IF IsPrefix(p, q) THEN None ELSE t[q]]

\* what a failed os.RemoveAll can leave: some of the entries below the path
\* removed, the path itself still there
RemoveAllFailed(t, p) ==
    {[q \in Paths |-> IF q \in S THEN None ELSE t[q]] :
        S \in SUBSET {q \in Paths : q # p /\ IsPrefix(p, q) /\ t[q].kind # "none"}}

\* os.Remove fails on a missing path and on a directory that is not empty
RemoveOk(t, p) ==
    /\ Kind(t, p) # "none"
    /\ \A q \in Paths : (q # p /\ IsPrefix(p, q)) => t[q].kind = "none"
Remove(t, p) == [t EXCEPT ![p] = None]

\* copyFile: os.Create fails on a directory and in a missing directory
copyFileOk(s, d, p) ==
    /\ Kind(s, p) = "file"
    /\ Kind(d, p) # "dir"
    /\ Kind(d, Parent(p)) = "dir"
\* copyFile: the bytes of the source, then os.Chtimes with its ModTime
copyFile(s, d, p) == [d EXCEPT ![p] = File(s[p].size, s[p].mtime)]

\* the modification time of a file written during the run: later than that of
\* every file the trees start with
Now == 3 * Second

\* what a failed copyFile can leave: nothing changed (os.Open or os.Create
\* failed), or the file created with some of the bytes and not yet the
\* modification time of the source (io.Copy, os.Stat or os.Chtimes failed)
copyFileFailed(s, d, p) ==
    {d} \cup (IF copyFileOk(s, d, p)
              THEN {[d EXCEPT ![p] = File(k, Now)] : k \in 0..s[p].size}
              ELSE {})

\* filesAreDifferent: the sizes differ, or the first file is more than a
\* second newer than the second (Time.Sub is signed)
filesAreDifferent(f1, f2) ==
    f1.size # f2.size \/ f1.mtime - f2.mtime > Second

(***************************************************************************)
(* config.FromCommandLine: the five cells, '-' or, with -force, 'a'.       *)
(***************************************************************************)
FromCommandLine(f) == [ax \in Axes |-> IF f THEN "a" ELSE "-"]

\* Console.Choice is called with the options "ynaq"
ChoiceOptions == {"y", "n", "a", "q"}
\* the bytes the user types at a prompt
Keys == {"y", "n", "a", "x", "q"}

(***************************************************************************)
(* The state before the program is started.                                *)
(***************************************************************************)
Idle ==
    /\ status = "idle"
    /\ run = 0
    /\ policy = FromCommandLine(force)
    /\ capacity = 1
    /\ throttle = 0
    /\ queue = << >>
    /\ wg = 0
    /\ tasks = {}
    /\ pc = "done"
    /\ cur = Root
    /\ snap = NoSnap
    /\ todo = {}
    /\ out = NoOut
    /\ gate = NoGate
    /\ mLocked = FALSE
    /\ key = ""
    /\ lastAllow = NoAllow
    /\ err = "none"
    /\ dirsCreated = 0 /\ dirsDeleted = 0 /\ filesCopied = 0
    /\ filesDeleted = 0 /\ filesIdentical = 0
    /\ visited = {}
    /\ granted = FALSE

\* console.New(): nobody waits for input, and the next progress line may be
\* printed from now on
New ==
    /\ now = 0
    /\ nextProgress = 0
    /\ waitForInput = NoCaller
    /\ calls = [g \in Callers |-> NoCall]
    /\ lastPrinted = Never

Init ==
    /\ src \in SrcTrees
    /\ dst \in DstTrees
    /\ dst0 = dst
    /\ force \in BOOLEAN
    /\ ~force => Cardinality(Entries(src)) + Cardinality(Entries(dst)) <= MaxAskEntries
    /\ Canonical(src, dst)
    /\ Idle
    /\ New
    /\ fi1 = NoFile /\ fi2 = NoFile /\ different = "unset"

\* os.Exit(1): the process ends, and with it the queue, the goroutines and
\* the locks; the destination tree stays as it is, and the counters are kept
\* as they stood so that what was counted can still be read
Exit ==
    /\ queue' = << >>
    /\ tasks' = {}
    /\ wg' = 0
    /\ throttle' = 0
    /\ pc' = "done"
    /\ cur' = Root
    /\ snap' = NoSnap
    /\ todo' = {}
    /\ out' = NoOut
    /\ gate' = NoGate
    /\ mLocked' = FALSE
    /\ key' = ""
    /\ lastAllow' = NoAllow
    /\ visited' = {}
    /\ granted' = FALSE
    /\ UNCHANGED <<src, dst0, force, run, policy, capacity, counters, stat, console>>

\* Frontend.Fatal after a filesystem call that failed leaving the destination
\* tree d: print the message and os.Exit(1)
FatalLeaving(e, d) ==
    /\ status' = "fatal"
    /\ err' = e
    /\ dst' = d
    /\ Exit

\* Frontend.Fatal after a call that failed without touching the destination
Fatal(e) == FatalLeaving(e, dst)

(***************************************************************************)
(* Run: coerce parallel, build the mirror, seed the queue with the root    *)
(* pair.  The policy cells are those main got from FromCommandLine.  The   *)
(* program is started again, on the same trees with the same flags, after  *)
(* a run with -force that printed its summary.                             *)
(***************************************************************************)
Run(parallel) ==
    /\ \/ status = "idle"
       \/ status = "complete" /\ run < MaxRuns /\ force
    /\ status' = "running"
    /\ run' = run + 1
    /\ dst0' = dst
    /\ policy' = FromCommandLine(force)
    /\ capacity' = IF parallel < 1 THEN 1 ELSE parallel
    /\ throttle' = 0
    /\ queue' = <<Root>>
    /\ wg' = 0
    /\ tasks' = {}
    /\ pc' = "get"
    /\ err' = "none"
    /\ dirsCreated' = 0 /\ dirsDeleted' = 0 /\ filesCopied' = 0
    /\ filesDeleted' = 0 /\ filesIdentical' = 0
    /\ visited' = {}
    /\ granted' = FALSE
    /\ UNCHANGED <<src, dst, force, cur, snap, todo, out, gate, mLocked, key,
                   lastAllow, stat, console>>

\* the loop of Run on an empty queue: m.get() returns false and the loop is
\* left
get ==
    /\ status = "running" /\ pc = "get" /\ ~mLocked
    /\ queue = << >>
    /\ pc' = "wait"
    /\ UNCHANGED <<src, dst, dst0, force, run, err, status, policy, capacity,
                   throttle, queue, wg, tasks, cur, snap, todo, out, gate,
                   mLocked, key, lastAllow, counters, stat, hist, console>>

\* the iterations of the four loops of compareSourceWithDestination that have
\* an effect: every source directory, every destination directory and file
\* missing in the source, every source file
Iterations(s) ==
    {[loop |-> 1, name |-> n] : n \in s.sDirs}
    \cup {[loop |-> 2, name |-> n] : n \in s.dDirs \ s.sDirs}
    \cup {[loop |-> 3, name |-> n] : n \in s.dFiles \ s.sFiles}
    \cup {[loop |-> 4, name |-> n] : n \in s.sFiles}

\* the loop of Run on a queue that is not empty, up to the two readDir calls
\* of compareSourceWithDestination: m.get() takes the first pair, process
\* sends on m.throttle, which blocks while the channel is full, and the two
\* directories are listed.  Nothing another goroutine does touches the queue
\* or the entries of this pair, so the three are one step.
process ==
    /\ status = "running" /\ pc = "get" /\ ~mLocked
    /\ queue # << >>
    /\ throttle < capacity
    /\ \E fails \in BOOLEAN :
        LET cfg == Head(queue)
        IN IF fails \/ ~readDirOk(src, cfg) \/ ~readDirOk(dst, cfg)
           THEN Fatal("DirectoryUnreadable")
           ELSE LET s == [sDirs |-> readDirDirs(src, cfg),
                          sFiles |-> readDirFiles(src, cfg),
                          dDirs |-> readDirDirs(dst, cfg),
                          dFiles |-> readDirFiles(dst, cfg)]
                IN /\ queue' = Tail(queue)
                   /\ cur' = cfg
                   /\ throttle' = throttle + 1
                   /\ snap' = s
                   /\ todo' = Iterations(s)
                   /\ out' = NoOut
                   /\ pc' = "compare"
                   /\ visited' = visited \cup {cfg}
                   /\ UNCHANGED <<src, dst, dst0, force, run, err, status, policy,
                                  capacity, wg, tasks, gate, mLocked, key,
                                  lastAllow, counters, stat, granted, console>>

\* the loop that runs next: the loops run in order, each over a map, whose
\* iteration order Go leaves open
CurLoop == IF \E it \in todo : it.loop = 1 THEN 1
           ELSE IF \E it \in todo : it.loop = 2 THEN 2
           ELSE IF \E it \in todo : it.loop = 3 THEN 3 ELSE 4

\* the policy cell an iteration consults through allow, "" when it consults
\* none
AxisOf(it) ==
    LET p == Join(cur, it.name)
    IN CASE it.loop = 1 -> IF it.name \in snap.dDirs THEN "" ELSE "CreateDir"
         [] it.loop = 2 -> "DeleteDir"
         [] it.loop = 3 -> "DeleteFile"
         [] OTHER -> IF it.name \notin snap.dFiles THEN "CreateFile"
                     ELSE IF filesAreDifferent(src[p], dst[p]) THEN "OverwriteFile"
                     ELSE ""

\* the body of one iteration as it would be were a denied directory to become
\* a sub pair all the same
ApplyDescending(it, allowed, mkOk) ==
    LET p == Join(cur, it.name)
        ax == AxisOf(it)
    IN /\ todo' = todo \ {it}
       /\ lastAllow' = IF ax = "" THEN lastAllow ELSE [axis |-> ax, ok |-> allowed]
       /\ CASE it.loop = 1 ->
                 /\ UNCHANGED filesIdentical
                 /\ IF ax = ""
                    THEN /\ out' = [out EXCEPT !.subs = Append(@, p)]
                         /\ UNCHANGED <<dst, dirsCreated, err>>
                    ELSE IF allowed
                    THEN /\ out' = [out EXCEPT !.subs = Append(@, p)]
                         /\ dirsCreated' = dirsCreated + 1
                         /\ IF mkOk /\ MkdirOk(dst, p)
                            THEN dst' = Mkdir(dst, p) /\ UNCHANGED err
                            ELSE err' = "CreateFailed" /\ UNCHANGED dst
                    ELSE /\ out' = [out EXCEPT !.subs = Append(@, p)]
                         /\ UNCHANGED <<dst, dirsCreated, err>>
            [] it.loop = 2 ->
                 /\ out' = IF allowed THEN [out EXCEPT !.delDirs = @ \cup {it.name}]
                           ELSE out
                 /\ UNCHANGED <<dst, dirsCreated, err, filesIdentical>>
            [] it.loop = 3 ->
                 /\ out' = IF allowed THEN [out EXCEPT !.delFiles = @ \cup {it.name}]
                           ELSE out
                 /\ UNCHANGED <<dst, dirsCreated, err, filesIdentical>>
            [] OTHER ->
                 /\ out' = IF ax = "CreateFile" /\ allowed
                           THEN [out EXCEPT !.cpFiles = @ \cup {it.name}]
                           ELSE out
                 /\ filesIdentical' = IF ax = "" THEN filesIdentical + 1
                                      ELSE filesIdentical
                 /\ UNCHANGED <<dst, dirsCreated, err>>

\* the body of one iteration once allow has returned `allowed`; mkOk is
\* whether the filesystem lets os.Mkdir succeed (its error is dropped)
Apply(it, allowed, mkOk) ==
    LET p == Join(cur, it.name)
        ax == AxisOf(it)
    IN /\ todo' = todo \ {it}
       /\ lastAllow' = IF ax = "" THEN lastAllow ELSE [axis |-> ax, ok |-> allowed]
       /\ CASE it.loop = 1 ->
                 /\ UNCHANGED filesIdentical
                 /\ IF ax = ""
                    THEN /\ out' = [out EXCEPT !.subs = Append(@, p)]
                         /\ UNCHANGED <<dst, dirsCreated, err>>
                    ELSE IF allowed
                    THEN /\ out' = [out EXCEPT !.subs = Append(@, p)]
                         /\ dirsCreated' = dirsCreated + 1
                         /\ IF mkOk /\ MkdirOk(dst, p)
                            THEN dst' = Mkdir(dst, p) /\ UNCHANGED err
                            ELSE err' = "CreateFailed" /\ UNCHANGED dst
                    ELSE UNCHANGED <<out, dst, dirsCreated, err>>
            [] it.loop = 2 ->
                 /\ out' = IF allowed THEN [out EXCEPT !.delDirs = @ \cup {it.name}]
                           ELSE out
                 /\ UNCHANGED <<dst, dirsCreated, err, filesIdentical>>
            [] it.loop = 3 ->
                 /\ out' = IF allowed THEN [out EXCEPT !.delFiles = @ \cup {it.name}]
                           ELSE out
                 /\ UNCHANGED <<dst, dirsCreated, err, filesIdentical>>
            [] OTHER ->
                 /\ out' = IF ax = "CreateFile" /\ allowed
                           THEN [out EXCEPT !.cpFiles = @ \cup {it.name}]
                           ELSE out
                 /\ filesIdentical' = IF ax = "" THEN filesIdentical + 1
                                      ELSE filesIdentical
                 /\ UNCHANGED <<dst, dirsCreated, err>>

Iterating(it) ==
    /\ status = "running" /\ pc = "compare" /\ gate = NoGate
    /\ it \in todo /\ it.loop = CurLoop

\* filesAreDifferent: os.Stat of the source or of the destination file fails
compareStatFails(it) ==
    /\ Iterating(it)
    /\ it.loop = 4 /\ it.name \in snap.dFiles
    /\ Fatal("StatUnavailable")

\* one iteration whose cell, if it consults one, is 'a' or 'x': allow returns
\* without a prompt
compareDecided(it) ==
    /\ Iterating(it)
    /\ ~mLocked
    /\ AxisOf(it) # "" => policy[AxisOf(it)] \in {"a", "x"}
    /\ \E mkOk \in BOOLEAN :
          Apply(it, AxisOf(it) = "" \/ policy[AxisOf(it)] = "a", mkOk)
    /\ granted' = (granted \/ (AxisOf(it) # "" /\ policy[AxisOf(it)] = "a"))
    /\ UNCHANGED <<src, dst0, force, run, status, policy, capacity, throttle, queue,
                   wg, tasks, pc, cur, snap, gate, mLocked, key, dirsDeleted,
                   filesCopied, filesDeleted, stat, visited, console>>

\* allow as it would be without the two tests of the cell before the prompt
allowPromptAlways(it) ==
    /\ Iterating(it)
    /\ ~mLocked
    /\ AxisOf(it) # ""
    /\ gate' = [axis |-> AxisOf(it), loop |-> it.loop, name |-> it.name]
    /\ mLocked' = TRUE
    /\ key' = ""
    /\ UNCHANGED <<src, dst, dst0, force, run, err, status, policy, capacity,
                   throttle, queue, wg, tasks, pc, cur, snap, todo, out,
                   lastAllow, counters, stat, hist, console>>

\* allow on a cell that is neither 'a' nor 'x': lock m.m, call Choice
allowPrompt(it) ==
    /\ Iterating(it)
    /\ ~mLocked
    /\ AxisOf(it) # "" /\ policy[AxisOf(it)] \notin {"a", "x"}
    /\ gate' = [axis |-> AxisOf(it), loop |-> it.loop, name |-> it.name]
    /\ mLocked' = TRUE
    /\ key' = ""
    /\ UNCHANGED <<src, dst, dst0, force, run, err, status, policy, capacity,
                   throttle, queue, wg, tasks, pc, cur, snap, todo, out,
                   lastAllow, counters, stat, hist, console>>

\* the switch of allow on the rune Choice returned
allowFlag(flag, r) == IF r = "a" THEN "a" ELSE IF r = "x" THEN "x" ELSE flag
\* the switch as it would be were case 'n' to return true as well
allowResultYes(r) == r \in {"y", "a", "n"}
allowResult(r) == r \in {"y", "a"}

\* Console.Choice reads one byte: a byte that is none of the options prints
\* "Invalid answer" and asks again
ChoiceInvalid(c) ==
    /\ status = "running" /\ gate # NoGate
    /\ c \notin ChoiceOptions
    /\ key' = c
    /\ UNCHANGED <<src, dst, dst0, force, run, err, status, policy, capacity,
                   throttle, queue, wg, tasks, pc, cur, snap, todo, out, gate,
                   mLocked, lastAllow, counters, stat, hist, console>>

\* allow as it would be were 'q' to end the driving goroutine only
allowQuitNoExit ==
    /\ status = "running" /\ gate # NoGate
    /\ "q" \in ChoiceOptions
    /\ status' = "quit"
    /\ UNCHANGED <<src, dst, dst0, force, run, err, policy, capacity, throttle,
                   queue, wg, tasks, pc, cur, snap, todo, out, gate, mLocked, key,
                   lastAllow, counters, stat, hist, console>>

\* Choice returns 'q': allow calls os.Exit(1)
allowQuit ==
    /\ status = "running" /\ gate # NoGate
    /\ "q" \in ChoiceOptions
    /\ status' = "quit"
    /\ UNCHANGED <<err, dst>>
    /\ Exit

\* Choice returns one of the other options: allow sets the cell on 'a' and
\* 'x', unlocks and returns, and the iteration goes on
allowAnswer(c) ==
    /\ status = "running" /\ gate # NoGate
    /\ c \in ChoiceOptions \ {"q"}
    /\ policy' = [policy EXCEPT ![gate.axis] = allowFlag(@, c)]
    /\ \E mkOk \in BOOLEAN :
          Apply([loop |-> gate.loop, name |-> gate.name], allowResult(c), mkOk)
    /\ gate' = NoGate
    /\ mLocked' = FALSE
    /\ key' = ""
    /\ granted' = (granted \/ c \in {"y", "a"})
    /\ UNCHANGED <<src, dst0, force, run, status, capacity, throttle, queue,
                   wg, tasks, pc, cur, snap, dirsDeleted, filesCopied,
                   filesDeleted, stat, visited, console>>

Task(k, p) == [kind |-> k, path |-> p, pc |-> "start"]

\* process as it would be were it to put its own pair back with the sub pairs
processSpawnRequeue ==
    /\ status = "running" /\ pc = "compare" /\ gate = NoGate /\ todo = {}
    /\ ~mLocked
    /\ queue' = queue \o out.subs \o <<cur>>
    /\ tasks' = tasks \cup {Task("delDir", Join(cur, n)) : n \in out.delDirs}
                      \cup {Task("delFile", Join(cur, n)) : n \in out.delFiles}
                      \cup {Task("copy", Join(cur, n)) : n \in out.cpFiles}
    /\ wg' = wg + Cardinality(out.delDirs) + Cardinality(out.delFiles)
                + Cardinality(out.cpFiles)
    /\ pc' = "return"
    /\ out' = NoOut
    /\ snap' = NoSnap
    /\ lastAllow' = NoAllow
    /\ UNCHANGED <<src, dst, dst0, force, run, err, status, policy, capacity,
                   throttle, cur, todo, gate, mLocked, key, counters, stat, hist, console>>

\* process as it would be were m.add to put the sub pairs in front
processSpawnInFront ==
    /\ status = "running" /\ pc = "compare" /\ gate = NoGate /\ todo = {}
    /\ ~mLocked
    /\ queue' = out.subs \o queue
    /\ tasks' = tasks \cup {Task("delDir", Join(cur, n)) : n \in out.delDirs}
                      \cup {Task("delFile", Join(cur, n)) : n \in out.delFiles}
                      \cup {Task("copy", Join(cur, n)) : n \in out.cpFiles}
    /\ wg' = wg + Cardinality(out.delDirs) + Cardinality(out.delFiles)
                + Cardinality(out.cpFiles)
    /\ pc' = "return"
    /\ out' = NoOut
    /\ snap' = NoSnap
    /\ lastAllow' = NoAllow
    /\ UNCHANGED <<src, dst, dst0, force, run, err, status, policy, capacity,
                   throttle, cur, todo, gate, mLocked, key, counters, stat, hist, console>>

\* process after compareSourceWithDestination: m.add(subs), then one goroutine
\* per name of delDirs, delFiles and cpFiles, each after m.wg.Add(1)
processSpawn ==
    /\ status = "running" /\ pc = "compare" /\ gate = NoGate /\ todo = {}
    /\ ~mLocked
    /\ queue' = queue \o out.subs
    /\ tasks' = tasks \cup {Task("delDir", Join(cur, n)) : n \in out.delDirs}
                      \cup {Task("delFile", Join(cur, n)) : n \in out.delFiles}
                      \cup {Task("copy", Join(cur, n)) : n \in out.cpFiles}
    /\ wg' = wg + Cardinality(out.delDirs) + Cardinality(out.delFiles)
                + Cardinality(out.cpFiles)
    /\ pc' = "return"
    /\ out' = NoOut
    /\ snap' = NoSnap
    /\ lastAllow' = NoAllow
    /\ UNCHANGED <<src, dst, dst0, force, run, err, status, policy, capacity,
                   throttle, cur, todo, gate, mLocked, key, counters, stat, hist, console>>

\* process as it would return without the deferred <-m.throttle
processReturnNoRelease ==
    /\ status = "running" /\ pc = "return"
    /\ pc' = "get"
    /\ cur' = Root
    /\ UNCHANGED <<src, dst, dst0, force, run, err, status, policy, capacity,
                   throttle, queue, wg, tasks, snap, todo, out, gate, mLocked,
                   key, lastAllow, counters, stat, hist, console>>

\* process returns: the deferred <-m.throttle
processReturn ==
    /\ status = "running" /\ pc = "return"
    /\ throttle' = throttle - 1
    /\ pc' = "get"
    /\ cur' = Root
    /\ UNCHANGED <<src, dst, dst0, force, run, err, status, policy, capacity,
                   queue, wg, tasks, snap, todo, out, gate, mLocked, key,
                   lastAllow, counters, stat, hist, console>>

\* Run as it would end without m.wg.Wait()
WaitNoBarrier ==
    /\ status = "running" /\ pc = "wait"
    /\ status' = "complete"
    /\ pc' = "done"
    /\ UNCHANGED <<src, dst, dst0, force, run, err, policy, capacity, throttle,
                   queue, wg, tasks, cur, snap, todo, out, gate, mLocked, key,
                   lastAllow, counters, stat, hist, console>>

\* Run after its loop: m.wg.Wait(), then the summary is printed
Wait ==
    /\ status = "running" /\ pc = "wait"
    /\ wg = 0
    /\ status' = "complete"
    /\ pc' = "done"
    /\ UNCHANGED <<src, dst, dst0, force, run, err, policy, capacity, throttle,
                   queue, wg, tasks, cur, snap, todo, out, gate, mLocked, key,
                   lastAllow, counters, stat, hist, console>>

\* a goroutine ends: the deferred m.wg.Done()
Done(t) == tasks' = tasks \ {t} /\ wg' = wg - 1

\* the goroutine of a name of delDirs: os.RemoveAll, then count
deleteDirTask(t) ==
    /\ status = "running" /\ t \in tasks /\ t.kind = "delDir"
    /\ \E fails \in BOOLEAN :
        IF fails
        THEN \E d \in RemoveAllFailed(dst, t.path) : FatalLeaving("DeleteFailed", d)
        ELSE /\ dst' = RemoveAll(dst, t.path)
             /\ dirsDeleted' = dirsDeleted + 1
             /\ Done(t)
             /\ UNCHANGED <<src, dst0, force, run, err, status, policy, capacity,
                            throttle, queue, pc, cur, snap, todo, out, gate,
                            mLocked, key, lastAllow, dirsCreated, filesCopied,
                            filesDeleted, filesIdentical, stat, hist, console>>

\* a file delete goroutine as it would be were it to wait for a slot of
\* m.throttle as the copy goroutines do
deleteFileTaskThrottled(t) ==
    /\ throttle < capacity
    /\ status = "running" /\ t \in tasks /\ t.kind = "delFile"
    /\ \E fails \in BOOLEAN :
        IF fails \/ ~RemoveOk(dst, t.path)
        THEN Fatal("DeleteFailed")
        ELSE /\ dst' = Remove(dst, t.path)
             /\ filesDeleted' = filesDeleted + 1
             /\ Done(t)
             /\ UNCHANGED <<src, dst0, force, run, err, status, policy, capacity,
                            throttle, queue, pc, cur, snap, todo, out, gate,
                            mLocked, key, lastAllow, dirsCreated, dirsDeleted,
                            filesCopied, filesIdentical, stat, hist, console>>

\* the goroutine of a name of delFiles: os.Remove, then count
deleteFileTask(t) ==
    /\ status = "running" /\ t \in tasks /\ t.kind = "delFile"
    /\ \E fails \in BOOLEAN :
        IF fails \/ ~RemoveOk(dst, t.path)
        THEN Fatal("DeleteFailed")
        ELSE /\ dst' = Remove(dst, t.path)
             /\ filesDeleted' = filesDeleted + 1
             /\ Done(t)
             /\ UNCHANGED <<src, dst0, force, run, err, status, policy, capacity,
                            throttle, queue, pc, cur, snap, todo, out, gate,
                            mLocked, key, lastAllow, dirsCreated, dirsDeleted,
                            filesCopied, filesIdentical, stat, hist, console>>

\* a copy goroutine as it would start were the send on m.throttle never to
\* block
copyAcquireUnthrottled(t) ==
    /\ status = "running" /\ t \in tasks /\ t.kind = "copy" /\ t.pc = "start"
    /\ throttle' = throttle + 1
    /\ tasks' = (tasks \ {t}) \cup {[t EXCEPT !.pc = "copying"]}
    /\ UNCHANGED <<src, dst, dst0, force, run, err, status, policy, capacity,
                   queue, wg, pc, cur, snap, todo, out, gate, mLocked, key,
                   lastAllow, counters, stat, hist, console>>

\* the goroutine of a name of cpFiles: m.throttle <- struct{}{}
copyAcquire(t) ==
    /\ status = "running" /\ t \in tasks /\ t.kind = "copy" /\ t.pc = "start"
    /\ throttle < capacity
    /\ throttle' = throttle + 1
    /\ tasks' = (tasks \ {t}) \cup {[t EXCEPT !.pc = "copying"]}
    /\ UNCHANGED <<src, dst, dst0, force, run, err, status, policy, capacity,
                   queue, wg, pc, cur, snap, todo, out, gate, mLocked, key,
                   lastAllow, counters, stat, hist, console>>

\* a copy goroutine as it would be without its atomic.AddUint64
copyTaskUncounted(t) ==
    /\ status = "running" /\ t \in tasks /\ t.kind = "copy" /\ t.pc = "copying"
    /\ \E fails \in BOOLEAN :
        IF fails \/ ~copyFileOk(src, dst, t.path)
        THEN \E d \in copyFileFailed(src, dst, t.path) : FatalLeaving("CopyFailed", d)
        ELSE /\ dst' = copyFile(src, dst, t.path)
             /\ filesCopied' = filesCopied
             /\ throttle' = throttle - 1
             /\ Done(t)
             /\ UNCHANGED <<src, dst0, force, run, err, status, policy, capacity,
                            queue, pc, cur, snap, todo, out, gate, mLocked, key,
                            lastAllow, dirsCreated, dirsDeleted, filesDeleted,
                            filesIdentical, stat, hist, console>>

\* the goroutine of a name of cpFiles, holding its slot: copyFile, count,
\* release the slot
copyTask(t) ==
    /\ status = "running" /\ t \in tasks /\ t.kind = "copy" /\ t.pc = "copying"
    /\ \E fails \in BOOLEAN :
        IF fails \/ ~copyFileOk(src, dst, t.path)
        THEN \E d \in copyFileFailed(src, dst, t.path) : FatalLeaving("CopyFailed", d)
        ELSE /\ dst' = copyFile(src, dst, t.path)
             /\ filesCopied' = filesCopied + 1
             /\ throttle' = throttle - 1
             /\ Done(t)
             /\ UNCHANGED <<src, dst0, force, run, err, status, policy, capacity,
                            queue, pc, cur, snap, todo, out, gate, mLocked, key,
                            lastAllow, dirsCreated, dirsDeleted, filesDeleted,
                            filesIdentical, stat, hist, console>>

Items == {[loop |-> l, name |-> n] : l \in 1..4, n \in Names}
AllTasks == {[kind |-> k, path |-> p, pc |-> c] :
                k \in {"delDir", "delFile", "copy"}, p \in Paths,
                c \in {"start", "copying"}}

Next ==
    \/ \E parallel \in ParallelValues : Run(parallel)
    \/ get
    \/ process
    \/ \E it \in Items : compareStatFails(it)
    \/ \E it \in Items : compareDecided(it)
    \/ \E it \in Items : allowPrompt(it)
    \/ \E c \in Keys : ChoiceInvalid(c)
    \/ allowQuit
    \/ \E c \in Keys : allowAnswer(c)
    \/ processSpawn
    \/ processReturn
    \/ Wait
    \/ \E t \in AllTasks : deleteDirTask(t)
    \/ \E t \in AllTasks : deleteFileTask(t)
    \/ \E t \in AllTasks : copyAcquire(t)
    \/ \E t \in AllTasks : copyTask(t)

Spec == Init /\ [][Next]_vars

\* the runs on trees of at most MaxLiveEntries entries, under a scheduler that
\* lets some goroutine that can take a step take one, and a user who ends up
\* typing one of the options at a prompt
InitLive ==
    /\ Init
    /\ Cardinality(Entries(src)) + Cardinality(Entries(dst)) <= MaxLiveEntries

LiveSpec == InitLive /\ [][Next]_vars /\ WF_vars(Next)

(***************************************************************************)
(* filesAreDifferent on its own: two os.Stat results drawn from bounded    *)
(* sizes and modification times half a second apart, and the call.         *)
(***************************************************************************)
FileInfos == {File(s, k * (Second \div 2)) : s \in 0..MaxSize, k \in 0..MaxTicks}

InitEq ==
    /\ src = [p \in Paths |-> None]
    /\ dst = [p \in Paths |-> None]
    /\ dst0 = dst
    /\ force = FALSE
    /\ Idle
    /\ New
    /\ fi1 \in FileInfos /\ fi2 \in FileInfos
    /\ different = "unset"

callFilesAreDifferent ==
    /\ different = "unset"
    /\ different' = IF filesAreDifferent(fi1, fi2) THEN "different" ELSE "identical"
    /\ UNCHANGED <<src, dst, dst0, force, run, err, engine, counters, fi1, fi2,
                   hist, console>>

NextEq == callFilesAreDifferent

SpecEq == InitEq /\ [][NextEq]_vars

Abs(x) == IF x < 0 THEN -x ELSE x

(***************************************************************************)
(* The console while a run is in progress: the driving goroutine calls     *)
(* Progress (process, compareSourceWithDestination) and allow, the copy    *)
(* goroutines call Progress, and time passes.  What the goroutines do      *)
(* between their calls is left out.                                        *)
(***************************************************************************)
rest == <<src, dst, dst0, force, run, err, capacity, throttle, queue, wg, tasks,
          pc, cur, snap, todo, out, counters, stat, hist>>

InitCon ==
    /\ src = [p \in Paths |-> None]
    /\ dst = [p \in Paths |-> None]
    /\ dst0 = dst
    /\ force = FALSE
    /\ status = "running"
    /\ run = 1
    /\ policy = FromCommandLine(force)
    /\ capacity = 1 /\ throttle = 0 /\ queue = << >> /\ wg = 0 /\ tasks = {}
    /\ pc = "compare" /\ cur = Root /\ snap = NoSnap /\ todo = {} /\ out = NoOut
    /\ gate = NoGate /\ mLocked = FALSE /\ key = "" /\ lastAllow = NoAllow
    /\ err = "none"
    /\ dirsCreated = 0 /\ dirsDeleted = 0 /\ filesCopied = 0
    /\ filesDeleted = 0 /\ filesIdentical = 0
    /\ visited = {Root} /\ granted = FALSE
    /\ New
    /\ fi1 = NoFile /\ fi2 = NoFile /\ different = "unset"

\* half a second passes
Tick ==
    /\ status = "running"
    /\ now < MaxClock * (Second \div 2)
    /\ now' = now + Second \div 2
    /\ UNCHANGED <<rest, status, policy, gate, mLocked, key, lastAllow,
                   nextProgress, waitForInput, calls, lastPrinted>>

\* the window of one second after the last line printed
InWindow == lastPrinted # Never /\ now < lastPrinted + Second

\* what the read of c.nextProgress of line 42 can yield: the field is read
\* without holding waitForInput, so a read that races with the write of line
\* 49 by another goroutine yields the value before or after that write
ReadNextProgress(g) ==
    {nextProgress}
    \cup {now + Second : h \in {h \in Callers \ {g} : calls[h].pc = "locked"}}

\* a goroutine calls Progress, which returns when nextProgress is after
\* time.Now()
Progress(g) ==
    /\ status = "running"
    /\ calls[g].pc = "out"
    /\ \E np \in ReadNextProgress(g) :
          calls' = [calls EXCEPT ![g] =
                       IF np > now THEN NoCall
                       ELSE [pc |-> "trylock", inWindow |-> InWindow, axis |-> ""]]
    /\ UNCHANGED <<rest, status, policy, gate, mLocked, key, lastAllow, now,
                   nextProgress, waitForInput, lastPrinted>>

\* Progress as it would be without the TryLock of waitForInput
ProgressNoLock(g) ==
    /\ status = "running"
    /\ calls[g].pc = "trylock"
    /\ calls' = [calls EXCEPT ![g].pc = "locked"]
    /\ UNCHANGED <<rest, status, policy, gate, mLocked, key, lastAllow, now,
                   nextProgress, waitForInput, lastPrinted>>

\* Progress: return when waitForInput.TryLock() fails
ProgressTryLock(g) ==
    /\ status = "running"
    /\ calls[g].pc = "trylock"
    /\ IF waitForInput = NoCaller
       THEN /\ waitForInput' = g
            /\ calls' = [calls EXCEPT ![g].pc = "locked"]
       ELSE /\ calls' = [calls EXCEPT ![g] = NoCall]
            /\ UNCHANGED waitForInput
    /\ UNCHANGED <<rest, status, policy, gate, mLocked, key, lastAllow, now,
                   nextProgress, lastPrinted>>

\* Progress holding waitForInput: set nextProgress, print the line, unlock
ProgressPrint(g) ==
    /\ status = "running"
    /\ calls[g].pc = "locked"
    /\ nextProgress' = now + Second
    /\ lastPrinted' = now
    /\ waitForInput' = IF waitForInput = g THEN NoCaller ELSE waitForInput
    /\ calls' = [calls EXCEPT ![g] = NoCall]
    /\ UNCHANGED <<rest, status, policy, gate, mLocked, key, lastAllow, now>>

\* allow, called by compareSourceWithDestination on the driving goroutine
\* for a cell that is neither 'a' nor 'x': lock m.m and call Choice
allowCall(ax) ==
    /\ status = "running"
    /\ calls[Driver].pc = "out" /\ ~mLocked
    /\ policy[ax] \notin {"a", "x"}
    /\ mLocked' = TRUE
    /\ calls' = [calls EXCEPT ![Driver] = [pc |-> "choice", inWindow |-> FALSE,
                                           axis |-> ax]]
    /\ UNCHANGED <<rest, status, policy, gate, key, lastAllow, now, nextProgress,
                   waitForInput, lastPrinted>>

\* Choice: waitForInput.Lock(), which blocks while a Progress holds it, then
\* the message is printed
Choice ==
    /\ status = "running"
    /\ calls[Driver].pc = "choice"
    /\ waitForInput = NoCaller
    /\ waitForInput' = Driver
    /\ gate' = [axis |-> calls[Driver].axis, loop |-> 0, name |-> ""]
    /\ key' = ""
    /\ calls' = [calls EXCEPT ![Driver].pc = "prompt"]
    /\ UNCHANGED <<rest, status, policy, mLocked, lastAllow, now, nextProgress,
                   lastPrinted>>

\* Choice reads one byte; allow acts on the rune Choice returns
ChoiceRead(c) ==
    /\ status = "running"
    /\ calls[Driver].pc = "prompt"
    /\ IF c \notin ChoiceOptions
       THEN /\ key' = c
            /\ UNCHANGED <<status, policy, gate, mLocked, lastAllow,
                           waitForInput, calls>>
       ELSE IF c = "q"
       THEN /\ status' = "quit"
            /\ gate' = NoGate /\ mLocked' = FALSE /\ key' = ""
            /\ waitForInput' = NoCaller
            /\ calls' = [g \in Callers |-> NoCall]
            /\ UNCHANGED <<policy, lastAllow>>
       ELSE /\ policy' = [policy EXCEPT ![gate.axis] = allowFlag(@, c)]
            /\ lastAllow' = [axis |-> gate.axis, ok |-> allowResult(c)]
            /\ gate' = NoGate /\ mLocked' = FALSE /\ key' = ""
            /\ waitForInput' = NoCaller
            /\ calls' = [calls EXCEPT ![Driver] = NoCall]
            /\ UNCHANGED status
    /\ UNCHANGED <<rest, now, nextProgress, lastPrinted>>

\* the cells the first two loops of compareSourceWithDestination consult
DirAxes == {"CreateDir", "DeleteDir"}

NextCon ==
    \/ Tick
    \/ \E g \in Callers : Progress(g)
    \/ \E g \in Callers : ProgressTryLock(g)
    \/ \E g \in Callers : ProgressPrint(g)
    \/ \E ax \in DirAxes : allowCall(ax)
    \/ Choice
    \/ \E c \in Keys : ChoiceRead(c)

SpecCon == InitCon /\ [][NextCon]_vars

(***************************************************************************)
(* C1  Completeness: when a run started with -force (all five cells 'a')   *)
(* has printed its summary, every file of the source tree has a file at    *)
(* the same path of the destination that filesAreDifferent does not        *)
(* report as different, whether it was missing before or differed.         *)
(***************************************************************************)
C1_Completeness ==
    (status = "complete" /\ force) =>
        \A p \in Paths :
            src[p].kind = "file" =>
                dst[p].kind = "file" /\ ~filesAreDifferent(src[p], dst[p])

(***************************************************************************)
(* C2  Deletion correctness: when a run whose DeleteDir and DeleteFile     *)
(* cells were 'a' from the start has printed its summary, every entry the  *)
(* destination had before the run at a path where the source has no such   *)
(* entry is gone, with everything below it; nothing is left at a path the  *)
(* source does not have.                                                   *)
(***************************************************************************)
C2_DeletionCorrectness ==
    (status = "complete" /\ force) =>
        \A p \in Paths :
            dst0[p].kind # "none" =>
                /\ src[p].kind # dst0[p].kind => dst[p].kind # dst0[p].kind
                /\ src[p].kind = "none" => dst[p].kind = "none"

\* a finished run that removed a destination directory the source does not
\* have, together with an entry below it
C2_Witness ==
    /\ status = "complete" /\ force /\ run = 1
    /\ \E p \in Paths, q \in Paths :
          /\ p # q /\ IsPrefix(p, q)
          /\ dst0[p].kind = "dir" /\ dst0[q].kind # "none"
          /\ src[p].kind = "none"
          /\ dst[p].kind = "none" /\ dst[q].kind = "none"
    /\ dirsDeleted = 1

(***************************************************************************)
(* C3  Idempotence: the second of two runs in succession with -force ends  *)
(* with filesCopied, filesDeleted, dirsCreated and dirsDeleted all 0 and   *)
(* filesIdentical the number of files of the source tree.                  *)
(***************************************************************************)
C3_Idempotence ==
    (status = "complete" /\ force /\ run = 2) =>
        /\ filesCopied = 0 /\ filesDeleted = 0
        /\ dirsCreated = 0 /\ dirsDeleted = 0
        /\ filesIdentical = Cardinality({p \in Paths : src[p].kind = "file"})

\* the holders of a slot of m.throttle: process, and the copy goroutines
\* between their send and their receive
Reconciling == IF status = "running" /\ pc \in {"compare", "return"} THEN 1 ELSE 0
Copying == Cardinality({t \in tasks : t.kind = "copy" /\ t.pc = "copying"})

(***************************************************************************)
(* C4  Throttle bound: the slots held are those of the reconciliation in   *)
(* progress and of the copies in progress, they never exceed the capacity  *)
(* of the throttle, which is the -parallel value or 1 when that is below   *)
(* 1, and none is held once the summary is printed.                        *)
(***************************************************************************)
C4_ThrottleBound ==
    /\ capacity >= 1 /\ capacity <= MaxParallel
    /\ throttle = Reconciling + Copying
    /\ Reconciling + Copying <= capacity
    /\ status = "complete" => throttle = 0

\* every slot is taken: one by the reconciliation of a pair, the others by
\* copies, while another copy waits for one
C4_Witness ==
    /\ status = "running" /\ pc = "return"
    /\ capacity = 2 /\ throttle = 2 /\ Copying = 1
    /\ \E t \in tasks : t.kind = "copy" /\ t.pc = "start"

(***************************************************************************)
(* C5  Completion barrier: the summary is printed only when the queue is   *)
(* empty, no pair is being reconciled and every spawned delete and copy    *)
(* task is done; once the loop of Run has found the queue empty, nothing   *)
(* is added to the queue for the rest of the run.                          *)
(***************************************************************************)
C5_CompletionBarrier ==
    /\ [](status = "complete" =>
            /\ queue = << >> /\ wg = 0 /\ tasks = {}
            /\ pc = "done" /\ todo = {} /\ gate = NoGate)
    /\ [][(status = "running" /\ pc = "wait") => queue' = << >>]_vars

\* a summary printed after delete tasks and copy tasks had been spawned in
\* more than one pair
C5_Witness ==
    /\ status = "complete"
    /\ filesCopied >= 2 /\ dirsDeleted + filesDeleted >= 1 /\ dirsCreated >= 1

(***************************************************************************)
(* C6  Termination: under fair scheduling every run ends; it ends with     *)
(* the summary unless a filesystem call failed (Fatal) or a prompt was     *)
(* answered with quit, for every value of -parallel.                       *)
(***************************************************************************)
C6_Termination ==
    (status \in {"idle", "running"}) ~> (status \in {"complete", "fatal", "quit"})

\* a summary printed by a run with a single slot in which a copy task had to
\* wait for the slot the reconciliation held
C6_Witness ==
    /\ status = "complete" /\ capacity = 1
    /\ filesCopied >= 2 /\ dirsCreated >= 1

Sticky(ax) == policy[ax] \in {"a", "x"}

(***************************************************************************)
(* C7  Policy stickiness: a cell that is 'a' or 'x' keeps its value for    *)
(* the rest of the run, no prompt is open for it, and every decision of    *)
(* allow on it is that value.                                              *)
(***************************************************************************)
C7_PolicyStickiness ==
    /\ [](gate # NoGate => ~Sticky(gate.axis))
    /\ [](lastAllow # NoAllow /\ Sticky(lastAllow.axis) =>
            lastAllow.ok = (policy[lastAllow.axis] = "a"))
    /\ [][\A ax \in Axes :
            (Sticky(ax) /\ run' = run) => policy'[ax] = policy[ax]]_vars

\* a cell made 'a' by an answer in the root pair, and a consultation of the
\* same cell in a sub pair answered by it
C7_Witness ==
    /\ status = "running" /\ ~force /\ pc = "compare" /\ cur # Root
    /\ policy["CreateDir"] = "a"
    /\ policy["CreateFile"] = "-"
    /\ lastAllow = [axis |-> "CreateDir", ok |-> TRUE]
    /\ dirsCreated = 2
    /\ gate = NoGate

(***************************************************************************)
(* C8  The 'none' answer: the byte 'x' typed at the prompt of an undecided *)
(* cell is taken as an answer: the cell becomes 'x', allow returns false   *)
(* and the prompt is closed.                                               *)
(***************************************************************************)
C8_NoneAnswer ==
    [][(ChoiceInvalid("x") \/ allowAnswer("x")) =>
          /\ policy'[gate.axis] = "x"
          /\ lastAllow' = [axis |-> gate.axis, ok |-> FALSE]
          /\ gate' = NoGate]_vars

(***************************************************************************)
(* C9  Equality tolerance: filesAreDifferent reports two files as          *)
(* different exactly when their sizes differ or their modification times   *)
(* are more than one second apart, whichever file is the newer.            *)
(***************************************************************************)
C9_EqualityTolerance ==
    different # "unset" =>
        (different = "different") =
            (fi1.size # fi2.size \/ Abs(fi1.mtime - fi2.mtime) > Second)

(***************************************************************************)
(* C10  Fatal propagation: a filesystem call that fails ends the process   *)
(* through Fatal at once, the action that failed is not counted, and no    *)
(* summary is printed by a run in which a call failed.                     *)
(***************************************************************************)
C10_FatalPropagation ==
    /\ [][(err' # err /\ err' # "none") =>
            (status' = "fatal" /\ counters' = counters)]_vars
    /\ [](status = "complete" => err = "none")

(***************************************************************************)
(* C11  Quit: the answer 'q' at a prompt ends the whole process with exit  *)
(* status 1: it is given at an open prompt and changes neither the         *)
(* destination nor a counter; in the state it leaves the queue is empty,   *)
(* no delete or copy goroutine is alive and no pair is being reconciled;   *)
(* and from then on the destination, the counters and the status stay as   *)
(* they are, so that no summary is printed.                                *)
(***************************************************************************)
C11_Quit ==
    /\ [](status = "quit" =>
            /\ queue = << >> /\ tasks = {} /\ wg = 0
            /\ pc = "done" /\ todo = {} /\ gate = NoGate)
    /\ [][(status # "quit" /\ status' = "quit") =>
            (gate # NoGate /\ dst' = dst /\ counters' = counters)]_vars
    /\ [][status = "quit" =>
            (status' = "quit" /\ dst' = dst /\ counters' = counters)]_vars

\* a quit at a prompt of a sub pair, after a directory was created and a
\* file copied for the root pair
C11_Witness ==
    /\ status = "quit"
    /\ dirsCreated = 1 /\ filesCopied = 1
    /\ \E p \in Paths : Len(p) = 2 /\ src[p].kind = "file" /\ dst[p].kind = "none"

(***************************************************************************)
(* C12  Progress rate limit: whatever the interleaving of the calls of     *)
(* Progress, a line is printed at least one second after the line before   *)
(* it, and a call made within the second that follows a printed line       *)
(* prints nothing.                                                         *)
(***************************************************************************)
C12_ProgressRateLimit ==
    [][\A g \in Callers :
          (status' = "running" /\ calls[g].pc = "locked" /\ calls'[g].pc = "out") =>
              /\ lastPrinted # Never => now - lastPrinted >= Second
              /\ ~calls[g].inWindow]_vars

\* no Progress holds waitForInput while a prompt waits for input, and the
\* other way round
PromptOpen == calls[Driver].pc = "prompt"
Printing == {g \in Callers : calls[g].pc = "locked"}

(***************************************************************************)
(* C16  Prompt exclusivity: a prompt waits for input only while the        *)
(* driving goroutine holds both m.m and waitForInput, so there is at most  *)
(* one; a policy cell changes only in a step taken at the open prompt,     *)
(* under m.m; while a prompt is open no Progress prints or is about to,    *)
(* and a Progress that reaches its TryLock then returns at once without    *)
(* a line.                                                                 *)
(***************************************************************************)
C16_PromptExclusivity ==
    /\ [](PromptOpen <=> gate # NoGate)
    /\ [](PromptOpen => (mLocked /\ waitForInput = Driver /\ Printing = {}))
    /\ [](Cardinality(Printing) <= 1)
    /\ [][policy' # policy => (PromptOpen /\ mLocked)]_vars
    /\ [][lastPrinted' # lastPrinted => ~PromptOpen]_vars
    /\ [][\A g \in Copiers :
            (PromptOpen /\ calls[g].pc = "trylock" /\ calls'[g] # calls[g]) =>
                (calls'[g] = NoCall /\ lastPrinted' = lastPrinted)]_vars
    /\ [](\A g \in Copiers :
            (PromptOpen /\ calls[g].pc = "trylock") => ENABLED ProgressTryLock(g))

\* a copy goroutine at the TryLock of Progress while a prompt of the second
\* cell waits for input, the first cell having been answered 'a'
C16_Witness ==
    /\ PromptOpen /\ gate.axis = "DeleteDir"
    /\ policy["CreateDir"] = "a"
    /\ \E g \in Copiers : calls[g].pc = "trylock"
    /\ lastPrinted # Never

(***************************************************************************)
(* C13  Visit at most once: within a run the queue never holds a pair      *)
(* twice nor a pair m.get() has already returned, m.get() returns the      *)
(* first pair of the queue and never one it returned before, and every     *)
(* pair it returns is a directory of the source tree.                      *)
(***************************************************************************)
C13_VisitOnce ==
    /\ [](status = "running" =>
            /\ \A i, j \in 1..Len(queue) : queue[i] = queue[j] => i = j
            /\ \A i \in 1..Len(queue) : queue[i] \notin visited
            /\ \A p \in visited : Kind(src, p) = "dir")
    /\ [][(status = "running" /\ status' = "running" /\ visited' # visited) =>
            /\ queue # << >>
            /\ Head(queue) \notin visited
            /\ visited' = visited \cup {Head(queue)}
            /\ queue' = Tail(queue)]_vars

\* a finished run that went through the root pair and three sub pairs
C13_Witness ==
    /\ status = "complete" /\ run = 1
    /\ Cardinality(visited) = 4
    /\ \E p \in visited : Len(p) = 2

\* what a run has done to the destination, read from the tree before and
\* after it
Created == {p \in Paths : dst0[p].kind # "dir" /\ dst[p].kind = "dir"}
Copied == {p \in Paths : dst0[p].kind # "file" /\ dst[p].kind = "file"}
DirsGone == {p \in Paths : dst0[p].kind = "dir" /\ dst[p].kind # "dir"}
FilesGone == {p \in Paths : dst0[p].kind = "file" /\ dst[p].kind # "file"}
\* the entries that went with a task of their own and not with a directory
\* above them
Top(S) == {p \in S : Kind(dst, Parent(p)) = "dir"}
JudgedIdentical ==
    {p \in Paths : /\ src[p].kind = "file" /\ dst0[p].kind = "file"
                   /\ ~filesAreDifferent(src[p], dst0[p])}
NoDecrease ==
    [][run' = run =>
          /\ dirsCreated' >= dirsCreated /\ dirsDeleted' >= dirsDeleted
          /\ filesCopied' >= filesCopied /\ filesDeleted' >= filesDeleted
          /\ filesIdentical' >= filesIdentical]_vars

(***************************************************************************)
(* C14  Counter exactness, as stated: the counters never decrease, and     *)
(* at the summary they are the numbers of directories created,             *)
(* directories deleted, files copied and files deleted in the destination  *)
(* and of source files judged identical to their destination counterpart.  *)
(***************************************************************************)
C14_CounterExactness ==
    /\ NoDecrease
    /\ [](status = "complete" =>
            /\ dirsCreated = Cardinality(Created)
            /\ dirsDeleted = Cardinality(DirsGone)
            /\ filesCopied = Cardinality(Copied)
            /\ filesDeleted = Cardinality(FilesGone)
            /\ filesIdentical = Cardinality(JudgedIdentical))

(***************************************************************************)
(* C14, amended: as above, except that dirsDeleted and filesDeleted are    *)
(* the numbers of directories and files removed by a delete task of their  *)
(* own: a directory removed with what it holds counts once, and what it    *)
(* holds is not counted.                                                   *)
(***************************************************************************)
C14_CounterExactnessTasks ==
    /\ NoDecrease
    /\ [](status = "complete" =>
            /\ dirsCreated = Cardinality(Created)
            /\ dirsDeleted = Cardinality(Top(DirsGone))
            /\ filesCopied = Cardinality(Copied)
            /\ filesDeleted = Cardinality(Top(FilesGone))
            /\ filesIdentical = Cardinality(JudgedIdentical))

\* a summary after a directory was created and a file copied into it, and a
\* directory deleted with the entry it held
C14_Witness ==
    /\ status = "complete" /\ run = 1
    /\ dirsCreated = 1 /\ filesCopied = 1 /\ dirsDeleted = 1
    /\ \E p \in Created, q \in Copied : Parent(q) = p
    /\ DirsGone \cup FilesGone # Top(DirsGone \cup FilesGone)

\* the directories both trees have
Both == {p \in Paths \cup {Root} : Kind(src, p) = "dir" /\ Kind(dst, p) = "dir"}
\* the iteration of the first loop a step of compareSourceWithDestination
\* has run
Ran(it) ==
    /\ status = "running" /\ status' = "running"
    /\ pc = "compare" /\ pc' = "compare"
    /\ it \in todo /\ it \notin todo' /\ it.loop = 1

(***************************************************************************)
(* C15  Descent independent of create permission, as stated: every name    *)
(* of a source directory becomes a sub pair of the pair being reconciled,  *)
(* whether the destination directory was there, was created or was         *)
(* denied.                                                                 *)
(***************************************************************************)
C15_DescentAlways ==
    [][\A it \in Items :
          Ran(it) => out'.subs = Append(out.subs, Join(cur, it.name))]_vars

(***************************************************************************)
(* C15, amended: the name of a source directory becomes a sub pair when    *)
(* the destination directory was there or allow let it be created; a name  *)
(* whose creation was denied becomes none, and a finished run has gone     *)
(* through the directories both trees then have, and no other.             *)
(***************************************************************************)
C15_DescentUnlessDenied ==
    /\ [][\A it \in Items :
            Ran(it) =>
                out'.subs = IF it.name \in snap.dDirs \/ lastAllow'.ok
                            THEN Append(out.subs, Join(cur, it.name))
                            ELSE out.subs]_vars
    /\ [](status = "complete" => visited = Both)

\* a finished run in which one directory was created and gone through, and
\* the creation of another was denied
C15_Witness ==
    /\ status = "complete" /\ ~force
    /\ \E p \in Paths :
          src[p].kind = "dir" /\ dst[p].kind = "none" /\ p \notin visited
    /\ \E q \in Paths :
          src[q].kind = "dir" /\ dst0[q].kind = "none" /\ q \in visited

\* a step within a run that leaves the run going
InRun == status = "running" /\ status' = "running"
Queued == {queue[i] : i \in 1..Len(queue)}

(***************************************************************************)
(* C17  Breadth-first ordering: m.get() takes the first pair of the queue  *)
(* and m.add puts pairs behind the last, so pairs leave in the order they  *)
(* came and no pair leaves before one nearer to the root; a pair is in     *)
(* the queue only once its parent has been reconciled; and, unless an      *)
(* os.Mkdir of the run failed, every pair in the queue has its             *)
(* destination directory, which stays there while the pair is queued.      *)
(***************************************************************************)
C17_BreadthFirst ==
    /\ [][(InRun /\ visited' # visited) =>
            (queue # << >> /\ cur' = Head(queue) /\ queue' = Tail(queue))]_vars
    /\ [][(InRun /\ visited' = visited) =>
            /\ Len(queue') >= Len(queue)
            /\ SubSeq(queue', 1, Len(queue)) = queue]_vars
    /\ [](status = "running" =>
            /\ \A i, j \in 1..Len(queue) : i < j => Len(queue[i]) <= Len(queue[j])
            /\ \A p \in Queued \ {Root} :
                  /\ Parent(p) \in visited
                  /\ ~(pc = "compare" /\ cur = Parent(p))
                  /\ err = "none" => Kind(dst, p) = "dir"
            /\ \A p \in visited \ {Root} : Parent(p) \in visited)
    /\ [][InRun =>
            \A p \in Queued \cap {queue'[i] : i \in 1..Len(queue')} :
                Kind(dst, p) = "dir" => Kind(dst', p) = "dir"]_vars

\* a pair of the second level queued behind a pair of the first, both with
\* destination directories the run created
C17_Witness ==
    /\ status = "running" /\ pc = "return" /\ err = "none"
    /\ Len(queue) = 2 /\ Len(queue[1]) = 1 /\ Len(queue[2]) = 2
    /\ \A p \in Queued : dst0[p].kind = "none" /\ dst[p].kind = "dir"

Deleting == {t \in tasks : t.kind \in {"delDir", "delFile"}}

(***************************************************************************)
(* C18  Deletions are unthrottled: a delete goroutine can take its step    *)
(* whatever the number of slots of m.throttle held, its step leaves        *)
(* m.throttle as it is unless it ends the process, and the delete          *)
(* goroutines alive at once are not held to the capacity of m.throttle.    *)
(***************************************************************************)
C18_DeletionsUnthrottled ==
    /\ [](\A t \in Deleting :
            status = "running" =>
                IF t.kind = "delDir" THEN ENABLED deleteDirTask(t)
                ELSE ENABLED deleteFileTask(t))
    /\ [][(InRun /\ \E t \in Deleting : t \notin tasks') =>
            throttle' = throttle]_vars

\* of two delete tasks spawned with a single slot, one has run to its end
\* and the other is alive while the reconciliation that spawned them still
\* holds the slot
C18_Witness ==
    /\ status = "running" /\ pc = "return" /\ cur = Root
    /\ capacity = 1 /\ throttle = 1
    /\ dirsDeleted + filesDeleted = 1
    /\ Cardinality(Deleting) = 1

\* the pairs whose destination directory is still to be read, or is being
\* read from
ToRead == Queued \cup (IF pc = "compare" THEN {cur} ELSE {})
\* the destination a run with -force ends with when no two of its tasks meet:
\* the directories and files of the source, a file the destination already
\* had being left as it was
Expected ==
    [p \in Paths |->
        IF src[p].kind = "dir" THEN Dir
        ELSE IF src[p].kind = "file"
             THEN IF dst0[p].kind = "file" THEN dst0[p]
                  ELSE File(src[p].size, src[p].mtime)
             ELSE None]

(***************************************************************************)
(* C19  No conflicting tasks: no two goroutines of a run have the same     *)
(* destination path as their target unless both are of the same kind, no   *)
(* delete goroutine has as its target a directory that is still to be      *)
(* read or a directory above one, and so a run with -force that reaches    *)
(* its summary leaves the same destination whatever the order in which     *)
(* its goroutines ran.                                                     *)
(***************************************************************************)
C19_NoConflictingTasks ==
    /\ status = "running" =>
          /\ \A t1, t2 \in tasks : t1.path = t2.path => t1.kind = t2.kind
          /\ \A t \in Deleting : \A p \in ToRead : ~IsPrefix(t.path, p)
    /\ (status = "complete" /\ force) => dst = Expected

(***************************************************************************)
(* C20  Denial leaves the destination unchanged: as long as no call of     *)
(* allow of a run has found its cell 'a' or had its prompt answered 'y'    *)
(* or 'a', the destination is as it was when the run started, no delete    *)
(* or copy goroutine exists, none is about to be spawned, the four         *)
(* counters of changes are 0 and only directories both trees have are      *)
(* queued; a run that ends so has gone through exactly those directories.  *)
(***************************************************************************)
C20_DenialFrame ==
    (status \in {"running", "complete"} /\ ~granted) =>
        /\ dst = dst0
        /\ tasks = {} /\ wg = 0
        /\ out.delDirs = {} /\ out.delFiles = {} /\ out.cpFiles = {}
        /\ dirsCreated = 0 /\ dirsDeleted = 0
        /\ filesCopied = 0 /\ filesDeleted = 0
        /\ Queued \cup visited \subseteq Both
        /\ status = "complete" => visited = Both

\* a finished run without -force in which the creation of a directory, the
\* deletion of an entry and the creation of a file were all denied
C20_Witness ==
    /\ status = "complete" /\ ~force /\ ~granted
    /\ \E p \in Paths : src[p].kind = "dir" /\ dst[p].kind = "none"
    /\ \E p \in Paths : src[p].kind # dst[p].kind /\ dst[p].kind # "none"
    /\ \E p \in Paths : src[p].kind = "file" /\ dst[p].kind # "file"

=============================================================================
